---- MODULE Spec2Model ----
(***************************************************************************)
(* The scaffolder action github:actions:dispatch                           *)
(* (createGithubActionsDispatchAction.handler): one invocation of the      *)
(* handler against a remote workflow API whose answers are arbitrary.      *)
(* Every await of the handler is one step; a step runs the handler from    *)
(* the return of one await up to the next await, return or throw.          *)
(***************************************************************************)
EXTENDS Integers, Sequences, FiniteSets, TLC

\* ---------------------------------------------------------------- bounds

\* Longest workflow_runs list a list-runs response carries (per_page caps it at 5).
MaxRuns == 2
\* Longest artifacts list a list-artifacts response carries.
MaxArtifacts == 2
\* Most entries of a downloaded archive.
MaxEntries == 2
\* Most waits of either loop in the interleavings of two invocations.
MaxWaits == 2

\* ------------------------------------------------------- program constants

maxRunPollAttempts == 12
maxPollAttempts == 60
pollIntervalMs == 5000
runDiscoveryDelayMs == 5000

\* ------------------------------------------------------------ value domains

\* An optional string that was not given (undefined).
Absent == "<undefined>"
\* What ctx.input.token and the two environment variables can hold.
TokenValues == {Absent, "", "ghp_tok"}
\* outputArtifactName: not given, empty, or a name.
ArtifactNameValues == {Absent, "", "result"}
\* Branch or tag names.
Refs == {"main", "dev"}
\* branchOrTagName of the requests explored.
RequestedRefs == {"main"}

\* created_at is a timestamp text, here <<minute, second>> of one hour.
\* Each run of the repository has its id and its creation time.
RunIds == {101, 102}
CreatedAt(id) == IF id = 101 THEN <<1, 5>> ELSE <<0, 30>>
NoConclusion == "<null>"
\* The workflow runs a list-runs response can carry: a run just dispatched,
\* on any branch.
WorkflowRuns ==
  { [id |-> id, head_branch |-> ref, created_at |-> CreatedAt(id),
     status |-> "queued", conclusion |-> NoConclusion] :
      id \in RunIds, ref \in Refs }
\* workflowRun before any run was selected (undefined).
NoRun ==
  [id |-> 0, head_branch |-> Absent, created_at |-> <<0, 0>>,
   status |-> Absent, conclusion |-> NoConclusion]

\* All sequences over S of length at most n.
SeqsUpTo(S, n) == UNION {[1..k -> S] : k \in 0..n}

\* data.workflow_runs of a list-runs response.
ListRunsResponses == SeqsUpTo(WorkflowRuns, MaxRuns)

\* status and conclusion of a get-run response.
Conclusions == {"success", "failure"}
RunStates ==
  [status : {"queued", "in_progress"}, conclusion : {NoConclusion}]
    \cup [status : {"completed"}, conclusion : Conclusions]
\* The answers of get-run for run_id = id: that run, in any state.
GetRunResponses(run) ==
  { [run EXCEPT !.status = st.status, !.conclusion = st.conclusion] :
      st \in RunStates }

\* The artifacts a list-artifacts response can carry.
ArtifactIds == {7, 8}
Artifacts == [id : ArtifactIds, name : {"result", "logs"}]
NoArtifact == [id |-> 0, name |-> Absent]
ListArtifactsResponses == SeqsUpTo(Artifacts, MaxArtifacts)

\* ------------------------------------------------------ archive and JSON

\* File names inside an archive, as sequences of characters.
ResultJsonPath == <<"r", ".", "j", "s", "o", "n">>
JsonTxtPath == <<"j", "s", "o", "n", ".", "t", "x", "t">>
DotJson == <<".", "j", "s", "o", "n">>

\* file.buffer() rejected: the entry cannot be read.
Unreadable == "<unreadable>"
\* The entries an archive can hold: a path and the text of the file.
ArchiveEntries ==
  { [path |-> ResultJsonPath, content |-> "{\"x\":1}"],
    [path |-> ResultJsonPath, content |-> "0"],
    [path |-> ResultJsonPath, content |-> "{"],
    [path |-> ResultJsonPath, content |-> Unreadable],
    [path |-> JsonTxtPath, content |-> "[2]"] }
\* The bytes a download-artifact response carries: an archive that opens
\* (valid) with its directory, or bytes unzipper cannot open.
CorruptZip == [valid |-> FALSE, files |-> <<>>]
NoZip == [valid |-> FALSE, files |-> <<[path |-> <<>>, content |-> Absent]>>]
DownloadResponses ==
  {CorruptZip} \cup [valid : {TRUE}, files : SeqsUpTo(ArchiveEntries, MaxEntries)]

\* String.prototype.endsWith
EndsWith(s, suffix) ==
  /\ Len(s) >= Len(suffix)
  /\ SubSeq(s, Len(s) - Len(suffix) + 1, Len(s)) = suffix

\* A JSON value: its type and its canonical text. ok = FALSE is a SyntaxError.
JsonValue(kind, val) == [ok |-> TRUE, kind |-> kind, val |-> val]
JsonSyntaxError == [ok |-> FALSE, kind |-> "error", val |-> ""]
\* outputJson before anything was parsed (undefined).
Undefined == [ok |-> TRUE, kind |-> "undefined", val |-> ""]

\* JSON.parse on the texts the archives hold.
JSONparse(text) ==
  CASE text = "{\"x\":1}" -> JsonValue("object", "x=1")
    [] text = "[2]" -> JsonValue("array", "2")
    [] text = "0" -> JsonValue("number", "0")
    [] text = "1" -> JsonValue("number", "1")
    [] text = "\"\"" -> JsonValue("string", "")
    [] text = "false" -> JsonValue("boolean", "false")
    [] text = "true" -> JsonValue("boolean", "true")
    [] text = "null" -> JsonValue("null", "null")
    [] OTHER -> JsonSyntaxError

\* JavaScript truthiness of a value, as in if (outputJson).
Truthy(v) ==
  CASE v.kind = "undefined" -> FALSE
    [] v.kind = "null" -> FALSE
    [] v.kind = "boolean" -> v.val = "true"
    [] v.kind = "number" -> v.val # "0"
    [] v.kind = "string" -> v.val # ""
    [] OTHER -> TRUE

\* ------------------------------------------------------------ pure helpers

\* +new Date(created_at): milliseconds.
DateValue(created_at) == (created_at[1] * 60 + created_at[2]) * 1000

\* The comparator with its operands swapped: oldest first.
CompareRunsAscending(a, b) == DateValue(a.created_at) - DateValue(b.created_at)

\* The comparator of the sort: (a, b) => +new Date(b.created_at) - +new Date(a.created_at)
CompareRuns(a, b) == DateValue(b.created_at) - DateValue(a.created_at)

\* Array.prototype.sort with CompareRuns (a stable sort): x goes behind
\* every element that does not have to come after it.
RECURSIVE InsertRun(_, _)
InsertRun(x, sorted) ==
  IF sorted = <<>> THEN <<x>>
  ELSE IF CompareRuns(Head(sorted), x) <= 0
       THEN <<Head(sorted)>> \o InsertRun(x, Tail(sorted))
       ELSE <<x>> \o sorted

RECURSIVE SortRuns(_)
SortRuns(runs) ==
  IF runs = <<>> THEN <<>>
  ELSE InsertRun(runs[Len(runs)], SortRuns(SubSeq(runs, 1, Len(runs) - 1)))

\* .filter(run => run.head_branch === branchOrTagName)
FilterRuns(runs, ref) == SelectSeq(runs, LAMBDA run : run.head_branch = ref)

\* The oldest run of the ref instead of the newest.
SelectRunOldest(runs, ref) ==
  LET sorted == SortRuns(FilterRuns(runs, ref))
  IN IF sorted = <<>> THEN NoRun ELSE sorted[Len(sorted)]

\* data.workflow_runs.filter(...).sort(...)[0]
SelectRun(runs, ref) ==
  LET sorted == SortRuns(FilterRuns(runs, ref))
  IN IF sorted = <<>> THEN NoRun ELSE sorted[1]

\* The first artifact of the list, whatever its name.
FindArtifactAnyName(artifacts, name) ==
  IF artifacts = <<>> THEN NoArtifact ELSE artifacts[1]

\* The last artifact of the requested name instead of the first.
FindArtifactLast(artifacts, name) ==
  LET hits == SelectSeq(artifacts, LAMBDA a : a.name = name)
  IN IF hits = <<>> THEN NoArtifact ELSE hits[Len(hits)]

\* artifactsData.artifacts.find(a => a.name === outputArtifactName)
FindArtifact(artifacts, name) ==
  LET hits == SelectSeq(artifacts, LAMBDA a : a.name = name)
  IN IF hits = <<>> THEN NoArtifact ELSE hits[1]

\* Index of the first entry whose path ends in .json; 0 when there is none.
FirstJsonIndex(files) ==
  LET hits == {k \in 1..Len(files) : EndsWith(files[k].path, DotJson)}
  IN IF hits = {} THEN 0 ELSE CHOOSE k \in hits : \A j \in hits : k <= j

\* The try block: what the scan leaves in outputJson, or that it threw
\* (the archive does not open, the entry cannot be read, the text is not JSON).
ExtractJson(zip) ==
  IF ~zip.valid THEN [threw |-> TRUE, outputJson |-> Undefined]
  ELSE LET k == FirstJsonIndex(zip.files)
       IN IF k = 0 THEN [threw |-> FALSE, outputJson |-> Undefined]
          ELSE IF zip.files[k].content = Unreadable
               THEN [threw |-> TRUE, outputJson |-> Undefined]
          ELSE IF ~JSONparse(zip.files[k].content).ok
               THEN [threw |-> TRUE, outputJson |-> Undefined]
          ELSE [threw |-> FALSE, outputJson |-> JSONparse(zip.files[k].content)]

\* A test that lets every scan result through.
EmitsOutputsAlways(outputJson) == TRUE

\* if (outputJson): whether ctx.output('outputs', outputJson) is called.
EmitsOutputs(outputJson) == Truthy(outputJson)

\* providedToken ?? process.env.GITHUB_TOKEN ?? process.env.GH_TOKEN
Nullish(a, b) == IF a = Absent THEN b ELSE a
ResolveToken(providedToken, GITHUB_TOKEN, GH_TOKEN) ==
  Nullish(Nullish(providedToken, GITHUB_TOKEN), GH_TOKEN)

\* A check that tells the empty string only, not undefined.
TokenMissingEmptyOnly(t) == t = ""

\* !token
TokenMissing(t) == t = Absent \/ t = ""

\* ------------------------------------------------------------------ state

VARIABLES
  input,        \* ctx.input
  env,          \* process.env: GITHUB_TOKEN and GH_TOKEN
  pc,           \* where the handler is: the await it is suspended on, done or failed
  error,        \* the error the handler threw
  token,        \* const token
  i,            \* the discovery loop's counter
  data,         \* data.workflow_runs of the last list-runs response
  workflowRun,  \* let workflowRun
  attempt,      \* the polling loop's counter
  completed,    \* let completed
  run,          \* data of the last get-run response
  runData,      \* let runData
  listed,       \* whether list-artifacts was answered, and the first artifact
                \* of its answer that has the requested name
  artifact,     \* const artifact
  zipData,      \* data of the download-artifact response
  output,       \* the values given to ctx.output, by name
  emitted,      \* how often ctx.output was called, by name
  warnings,     \* the ctx.logger.warn messages, in order
  calls,        \* how many calls of each kind were made to the remote API
  usedRunIds,   \* the run_id arguments of the get-run and list-artifacts calls
  downloadedIds,\* the artifact_id arguments of the download calls
  slept,        \* milliseconds waited in each loop
  firstMatchAt, \* the number of the list-runs call whose response first held
                \* a run with the requested head ref; 0 before
  firstCompleted, \* the number of the get-run call that first answered
                \* status completed, with the conclusion it carried; 0 before
  remote,       \* the workflow runs of the repository at the remote, oldest
                \* first: whose dispatch created each, and its conclusion
  other         \* a second invocation of the handler in the same process:
                \* which of the two is running, and the suspended one's
                \* variables

vars ==
  <<input, env, pc, error, token, i, data, workflowRun, attempt, completed, run,
    runData, listed, artifact, zipData, output, emitted, warnings,
    calls, usedRunIds, downloadedIds, slept, firstMatchAt, firstCompleted,
    remote, other>>

\* const runId = workflowRun.id
runId == workflowRun.id

\* The requests explored.
Inputs ==
  [token : TokenValues, waitForCompletion : BOOLEAN,
   outputArtifactName : ArtifactNameValues, branchOrTagName : RequestedRefs]
\* The environment explored: neither variable set.
Environments == [GITHUB_TOKEN : {Absent}, GH_TOKEN : {Absent}]

\* The handler's variables, as one value.
Locals ==
  [pc |-> pc,
   error |-> error,
   token |-> token,
   i |-> i,
   data |-> data,
   workflowRun |-> workflowRun,
   attempt |-> attempt,
   completed |-> completed,
   run |-> run,
   runData |-> runData,
   listed |-> listed,
   artifact |-> artifact,
   zipData |-> zipData,
   output |-> output,
   emitted |-> emitted,
   warnings |-> warnings,
   calls |-> calls,
   usedRunIds |-> usedRunIds,
   downloadedIds |-> downloadedIds,
   slept |-> slept,
   firstMatchAt |-> firstMatchAt,
   firstCompleted |-> firstCompleted]

\* The variables of an invocation that has not run yet.
EnteredLocals ==
  [pc |-> "start",
   error |-> "none",
   token |-> Absent,
   i |-> 0,
   data |-> <<>>,
   workflowRun |-> NoRun,
   attempt |-> 0,
   completed |-> FALSE,
   run |-> NoRun,
   runData |-> NoRun,
   listed |-> [answered |-> FALSE, first |-> NoArtifact],
   artifact |-> NoArtifact,
   zipData |-> NoZip,
   output |-> [conclusion |-> Absent, outputs |-> Undefined],
   emitted |-> [conclusion |-> 0, outputs |-> 0],
   warnings |-> <<>>,
   calls |-> [trigger |-> 0, listRuns |-> 0, getRun |-> 0, listArtifacts |-> 0, download |-> 0],
   usedRunIds |-> {},
   downloadedIds |-> {},
   slept |-> [discovery |-> 0, polling |-> 0],
   firstMatchAt |-> 0,
   firstCompleted |-> [call |-> 0, conclusion |-> NoConclusion]]

\* The handler's variables when it is entered; no run exists at the remote
\* yet, and a second invocation, if there is one, has not run either.
Entered ==
  /\ pc = EnteredLocals.pc
  /\ error = EnteredLocals.error
  /\ token = EnteredLocals.token
  /\ i = EnteredLocals.i
  /\ data = EnteredLocals.data
  /\ workflowRun = EnteredLocals.workflowRun
  /\ attempt = EnteredLocals.attempt
  /\ completed = EnteredLocals.completed
  /\ run = EnteredLocals.run
  /\ runData = EnteredLocals.runData
  /\ listed = EnteredLocals.listed
  /\ artifact = EnteredLocals.artifact
  /\ zipData = EnteredLocals.zipData
  /\ output = EnteredLocals.output
  /\ emitted = EnteredLocals.emitted
  /\ warnings = EnteredLocals.warnings
  /\ calls = EnteredLocals.calls
  /\ usedRunIds = EnteredLocals.usedRunIds
  /\ downloadedIds = EnteredLocals.downloadedIds
  /\ slept = EnteredLocals.slept
  /\ firstMatchAt = EnteredLocals.firstMatchAt
  /\ firstCompleted = EnteredLocals.firstCompleted
  /\ remote = <<>>
  /\ other = [self |-> 1, locals |-> EnteredLocals]

Init ==
  /\ input \in Inputs
  /\ env \in Environments
  /\ Entered

\* Every way the three credential sources can be absent, empty or set:
\* each source with a value of its own.
CredentialInputs ==
  [token : TokenValues, waitForCompletion : BOOLEAN,
   outputArtifactName : {"result"}, branchOrTagName : RequestedRefs]
CredentialEnvironments ==
  [GITHUB_TOKEN : {Absent, "", "ghs_env"}, GH_TOKEN : {Absent, "", "gho_cli"}]

InitCredentials ==
  /\ input \in CredentialInputs
  /\ env \in CredentialEnvironments
  /\ Entered

\* An error that is recorded while the handler carries on where it was.
ThrowSwallowed(err) == pc' = pc /\ error' = err

\* throw new Error(...), or an awaited call of the remote API rejecting.
Throw(err) == pc' = "failed" /\ error' = err
\* return
Return == pc' = "done" /\ error' = error

\* if (!outputArtifactName)
NoArtifactRequested == input.outputArtifactName \in {Absent, ""}

\* The flag read the wrong way round.
ReturnsAfterDispatchInverted(waitForCompletion) == waitForCompletion

\* if (!waitForCompletion) return
ReturnsAfterDispatch(waitForCompletion) == ~waitForCompletion

\* A discovery loop with no bound.
DiscoveryContinuesForever(n) == TRUE

\* i <= maxRunPollAttempts: one attempt too many.
DiscoveryContinuesOffByOne(n) == n <= maxRunPollAttempts

\* i < maxRunPollAttempts
DiscoveryContinues(n) == n < maxRunPollAttempts

\* attempt <= maxPollAttempts: one attempt too many.
PollingContinuesOffByOne(n) == n <= maxPollAttempts

\* attempt < maxPollAttempts
PollingContinues(n) == n < maxPollAttempts

\* A test that takes every answer for a completed run.
IsCompletedAlways(r) == TRUE

\* The status compared with a conclusion's word: never true.
IsCompletedWrongWord(r) == r.status = "success"

\* run.status === 'completed'
IsCompleted(r) == r.status = "completed"

\* The first artifact of a list-artifacts response that has the name.
FirstNamed(artifacts, name) ==
  IF \A k \in 1..Len(artifacts) : artifacts[k].name # name
  THEN NoArtifact
  ELSE artifacts[CHOOSE k \in 1..Len(artifacts) :
                   /\ artifacts[k].name = name
                   /\ \A j \in 1..(k - 1) : artifacts[j].name # name]

\* A delay that grows with the attempt number.
PollDelayBackoff(n) == pollIntervalMs * (n + 1)

\* setTimeout(resolve, pollIntervalMs): the delay before attempt n + 1.
PollDelay(n) == pollIntervalMs

\* A loop that never sees the run it selected.
RunFoundNever(r) == FALSE

\* if (workflowRun) break
RunFound(r) == r # NoRun

\* Whether a list-runs response holds a run with the requested head ref.
HasMatchingRun(workflow_runs, ref) ==
  \E k \in 1..Len(workflow_runs) : workflow_runs[k].head_branch = ref

\* Token resolution, up to the dispatch call.
Start ==
  /\ pc = "start"
  /\ token' = ResolveToken(input.token, env.GITHUB_TOKEN, env.GH_TOKEN)
  /\ IF TokenMissing(token')
     THEN Throw("MissingToken")
     ELSE pc' = "dispatch" /\ error' = error
  /\ UNCHANGED <<remote, other, input, env, i, data, workflowRun, attempt, completed, run,
                 runData, listed, artifact, zipData, output, emitted,
                 warnings, calls, usedRunIds, downloadedIds, slept,
                 firstMatchAt, firstCompleted>>

\* await createWorkflowDispatch, then return unless waitForCompletion.
CreateWorkflowDispatch ==
  /\ pc = "dispatch"
  /\ calls' = [calls EXCEPT !.trigger = @ + 1]
  /\ \/ Throw("ApiError")
     \/ IF ReturnsAfterDispatch(input.waitForCompletion)
        THEN Return
        ELSE pc' = "listRuns" /\ error' = error
  /\ UNCHANGED <<remote, other, input, env, token, i, data, workflowRun, attempt, completed,
                 run, runData, listed, artifact, zipData, output,
                 emitted, warnings, usedRunIds, downloadedIds, slept,
                 firstMatchAt, firstCompleted>>

\* await listWorkflowRuns, select the run; break when one was found.
ListWorkflowRuns ==
  /\ pc = "listRuns"
  /\ calls' = [calls EXCEPT !.listRuns = @ + 1]
  /\ \/ /\ Throw("ApiError")
        /\ UNCHANGED <<data, workflowRun, runData, firstMatchAt>>
     \/ \E workflow_runs \in ListRunsResponses :
          /\ data' = workflow_runs
          /\ firstMatchAt' =
               IF firstMatchAt = 0
                  /\ HasMatchingRun(workflow_runs, input.branchOrTagName)
               THEN calls'.listRuns ELSE firstMatchAt
          /\ workflowRun' = SelectRun(workflow_runs, input.branchOrTagName)
          /\ IF RunFound(workflowRun')
             THEN pc' = "getRun" /\ runData' = workflowRun'
             ELSE pc' = "discoverWait" /\ runData' = runData
          /\ error' = error
  /\ UNCHANGED <<remote, other, input, env, token, i, attempt, completed, run, listed,
                 artifact, zipData, output, emitted, warnings, usedRunIds,
                 downloadedIds, slept, firstCompleted>>

\* The 5 s timer of the discovery loop fires; i++; the loop goes on or ends
\* with no run found.
DiscoverWait ==
  /\ pc = "discoverWait"
  /\ slept' = [slept EXCEPT !.discovery = @ + runDiscoveryDelayMs]
  /\ i' = i + 1
  /\ IF DiscoveryContinues(i')
     THEN pc' = "listRuns" /\ error' = error
     ELSE IF workflowRun = NoRun
          THEN Throw("RunNotFound")
          ELSE pc' = "getRun" /\ error' = error
  /\ data' = <<>>
  /\ UNCHANGED <<remote, other, input, env, token, workflowRun, attempt, completed, run,
                 runData, listed, artifact, zipData, output, emitted,
                 warnings, calls, usedRunIds, downloadedIds, firstMatchAt,
                 firstCompleted>>

\* await getWorkflowRun; on completed: break, output the conclusion, and
\* return unless an output artifact was asked for.
GetWorkflowRun ==
  /\ pc = "getRun"
  /\ calls' = [calls EXCEPT !.getRun = @ + 1]
  /\ usedRunIds' = usedRunIds \cup {runId}
  /\ data' = <<>>
  /\ \/ /\ Throw("ApiError")
        /\ UNCHANGED <<run, completed, runData, output, emitted, firstCompleted>>
     \/ \E answer \in GetRunResponses(workflowRun) :
          /\ run' = answer
          /\ firstCompleted' =
               IF firstCompleted.call = 0 /\ answer.status = "completed"
               THEN [call |-> calls'.getRun, conclusion |-> answer.conclusion]
               ELSE firstCompleted
          /\ IF IsCompleted(answer)
             THEN /\ completed' = TRUE
                  /\ runData' = answer
                  /\ output' = [output EXCEPT !.conclusion = runData'.conclusion]
                  /\ emitted' = [emitted EXCEPT !.conclusion = @ + 1]
                  /\ IF NoArtifactRequested
                     THEN Return
                     ELSE pc' = "listArtifacts" /\ error' = error
             ELSE /\ pc' = "pollWait" /\ error' = error
                  /\ UNCHANGED <<completed, runData, output, emitted>>
  /\ UNCHANGED <<remote, other, input, env, token, i, workflowRun, attempt, listed,
                 artifact, zipData, warnings, downloadedIds, slept,
                 firstMatchAt>>

\* The 5 s timer of the polling loop fires; attempt++; the loop goes on or
\* ends without completion.
PollWait ==
  /\ pc = "pollWait"
  /\ slept' = [slept EXCEPT !.polling = @ + PollDelay(attempt)]
  /\ attempt' = attempt + 1
  /\ run' = NoRun
  /\ IF PollingContinues(attempt')
     THEN pc' = "getRun" /\ error' = error
     ELSE IF ~completed
          THEN Throw("Timeout")
          ELSE pc' = "listArtifacts" /\ error' = error
  /\ UNCHANGED <<remote, other, input, env, token, i, data, workflowRun, completed, runData,
                 listed, artifact, zipData, output, emitted, warnings,
                 calls, usedRunIds, downloadedIds, firstMatchAt,
                 firstCompleted>>

\* await listWorkflowRunArtifacts, find the artifact by name; warn and
\* return when there is none.
ListWorkflowRunArtifacts ==
  /\ pc = "listArtifacts"
  /\ calls' = [calls EXCEPT !.listArtifacts = @ + 1]
  /\ usedRunIds' = usedRunIds \cup {runId}
  /\ \/ /\ Throw("ApiError")
        /\ UNCHANGED <<listed, artifact, warnings>>
     \/ \E artifacts \in ListArtifactsResponses :
          /\ listed' = [answered |-> TRUE,
                        first |-> FirstNamed(artifacts, input.outputArtifactName)]
          /\ artifact' = FindArtifact(artifacts, input.outputArtifactName)
          /\ IF artifact' = NoArtifact
             THEN /\ warnings' = Append(warnings, "ArtifactNotFound")
                  /\ Return
             ELSE /\ pc' = "download" /\ error' = error
                  /\ warnings' = warnings
  /\ UNCHANGED <<remote, other, input, env, token, i, data, workflowRun, attempt, completed,
                 run, runData, zipData, output, emitted, downloadedIds, slept,
                 firstMatchAt, firstCompleted>>

\* await downloadArtifact.
DownloadArtifact ==
  /\ pc = "download"
  /\ calls' = [calls EXCEPT !.download = @ + 1]
  /\ downloadedIds' = downloadedIds \cup {artifact.id}
  /\ \/ /\ Throw("ApiError")
        /\ zipData' = zipData
     \/ \E bytes \in DownloadResponses :
          /\ zipData' = bytes
          /\ pc' = "extract" /\ error' = error
  /\ UNCHANGED <<remote, other, input, env, token, i, data, workflowRun, attempt, completed,
                 run, runData, listed, artifact, output, emitted, warnings,
                 usedRunIds, slept, firstMatchAt, firstCompleted>>

\* No catch: the try block's errors leave the handler.
ExtractionErrorRethrown == FALSE

\* catch (error) { ctx.logger.warn(...) }: the try block's errors stop here.
ExtractionErrorCaught == TRUE

\* The try/catch: open the archive, parse the first .json entry, output it.
ExtractArtifact ==
  /\ pc = "extract"
  /\ LET r == ExtractJson(zipData)
     IN IF r.threw
        THEN /\ UNCHANGED <<output, emitted>>
             /\ IF ExtractionErrorCaught
                THEN warnings' = Append(warnings, "ExtractFailed") /\ Return
                ELSE warnings' = warnings /\ Throw("ExtractError")
        ELSE IF EmitsOutputs(r.outputJson)
        THEN /\ output' = [output EXCEPT !.outputs = r.outputJson]
             /\ emitted' = [emitted EXCEPT !.outputs = @ + 1]
             /\ warnings' = warnings
             /\ Return
        ELSE /\ warnings' = Append(warnings, "NoJsonFound")
             /\ UNCHANGED <<output, emitted>>
             /\ Return
  /\ UNCHANGED <<remote, other, input, env, token, i, data, workflowRun, attempt, completed,
                 run, runData, listed, artifact, zipData, calls,
                 usedRunIds, downloadedIds, slept, firstMatchAt,
                 firstCompleted>>

Next ==
  \/ Start
  \/ CreateWorkflowDispatch
  \/ ListWorkflowRuns
  \/ DiscoverWait
  \/ GetWorkflowRun
  \/ PollWait
  \/ ListWorkflowRunArtifacts
  \/ DownloadArtifact
  \/ ExtractArtifact

Spec == Init /\ [][Next]_vars

\* Every awaited call and every timer eventually settles: the handler is
\* never suspended forever on an await.
SpecFair == Spec /\ WF_vars(Next)

\* The same handler over every combination of the credential sources.
SpecCredentials == InitCredentials /\ [][Next]_vars

\* ------------------------------------------------------ two invocations

\* Two scaffolder tasks run the handler in one process for the same owner,
\* repository, workflow and ref. Each runs from one await to the next; the
\* variables above are those of the invocation that is running, other.locals
\* those of the suspended one. The remote is the repository's list of runs:
\* it answers list-runs and get-run from that list.

Invocations == {1, 2}

\* The variables of invocation inv.
LocalsOf(inv) == IF inv = other.self THEN Locals ELSE other.locals

\* The k-th run created in the repository: the later run has the later
\* creation time.
RemoteRunId(k) == IF k = 1 THEN 102 ELSE 101

\* The run as list-runs returns it.
RemoteRun(k) ==
  [id |-> RemoteRunId(k), head_branch |-> input.branchOrTagName,
   created_at |-> CreatedAt(RemoteRunId(k)), status |-> "queued",
   conclusion |-> NoConclusion]

\* data.workflow_runs for the runs that exist, newest first.
RemoteListing == [k \in 1..Len(remote) |-> RemoteRun(Len(remote) + 1 - k)]

\* data of get-run for the run with this id.
RemoteRunState(id) ==
  LET k == CHOOSE n \in 1..Len(remote) : RemoteRunId(n) = id
  IN [RemoteRun(k) EXCEPT
        !.status = IF remote[k].conclusion = NoConclusion
                   THEN "in_progress" ELSE "completed",
        !.conclusion = remote[k].conclusion]

\* The remote accepted the dispatch call of an invocation with these variables.
DispatchAccepted(l) ==
  /\ l.calls.trigger = 1
  /\ ~(l.pc = "failed" /\ l.calls.listRuns = 0)

\* The running invocation is suspended on its await and the other one resumes.
Switch ==
  /\ other.locals.pc \notin {"done", "failed"}
  /\ other' = [self |-> 3 - other.self, locals |-> Locals]
  /\ pc' = other.locals.pc
  /\ error' = other.locals.error
  /\ token' = other.locals.token
  /\ i' = other.locals.i
  /\ data' = other.locals.data
  /\ workflowRun' = other.locals.workflowRun
  /\ attempt' = other.locals.attempt
  /\ completed' = other.locals.completed
  /\ run' = other.locals.run
  /\ runData' = other.locals.runData
  /\ listed' = other.locals.listed
  /\ artifact' = other.locals.artifact
  /\ zipData' = other.locals.zipData
  /\ output' = other.locals.output
  /\ emitted' = other.locals.emitted
  /\ warnings' = other.locals.warnings
  /\ calls' = other.locals.calls
  /\ usedRunIds' = other.locals.usedRunIds
  /\ downloadedIds' = other.locals.downloadedIds
  /\ slept' = other.locals.slept
  /\ firstMatchAt' = other.locals.firstMatchAt
  /\ firstCompleted' = other.locals.firstCompleted
  /\ UNCHANGED <<input, env, remote>>

\* Some time after a dispatch was accepted, its run appears in the repository.
RemoteCreatesRun ==
  /\ \E inv \in Invocations :
       /\ DispatchAccepted(LocalsOf(inv))
       /\ \A k \in 1..Len(remote) : remote[k].by # inv
       /\ remote' = Append(remote, [by |-> inv, conclusion |-> NoConclusion])
  /\ UNCHANGED <<input, env, other, pc, error, token, i, data,
                 workflowRun, attempt, completed, run,
                 runData, listed, artifact, zipData, output,
                 emitted, warnings, calls, usedRunIds,
                 downloadedIds, slept, firstMatchAt,
                 firstCompleted>>

\* A run of the repository completes.
RemoteCompletesRun ==
  /\ \E k \in 1..Len(remote), c \in Conclusions :
       /\ remote[k].conclusion = NoConclusion
       /\ remote' = [remote EXCEPT ![k].conclusion = c]
  /\ UNCHANGED <<input, env, other, pc, error, token, i, data,
                 workflowRun, attempt, completed, run,
                 runData, listed, artifact, zipData, output,
                 emitted, warnings, calls, usedRunIds,
                 downloadedIds, slept, firstMatchAt,
                 firstCompleted>>

\* list-runs answered from the repository's runs.
ListWorkflowRunsOfRemote ==
  /\ ListWorkflowRuns
  /\ error' = "ApiError" \/ data' = RemoteListing

\* get-run answered from the repository's runs.
GetWorkflowRunOfRemote ==
  /\ GetWorkflowRun
  /\ error' = "ApiError" \/ run' = RemoteRunState(runId)

DiscoverWaitBounded == i < MaxWaits /\ DiscoverWait

PollWaitBounded == attempt < MaxWaits /\ PollWait

ConcurrentInputs ==
  [token : {"ghp_tok"}, waitForCompletion : {TRUE},
   outputArtifactName : {Absent}, branchOrTagName : RequestedRefs]

InitConcurrent ==
  /\ input \in ConcurrentInputs
  /\ env \in Environments
  /\ Entered

NextConcurrent ==
  \/ Start
  \/ CreateWorkflowDispatch
  \/ ListWorkflowRunsOfRemote
  \/ DiscoverWaitBounded
  \/ GetWorkflowRunOfRemote
  \/ PollWaitBounded
  \/ Switch
  \/ RemoteCreatesRun
  \/ RemoteCompletesRun

SpecConcurrent == InitConcurrent /\ [][NextConcurrent]_vars

\* ------------------------------------------------------------ properties

\* The handler returned or threw.
Finished == pc \in {"done", "failed"}
\* The handler returned.
Succeeded == pc = "done" /\ error = "none"
\* No awaited call of the remote API was rejected: every call made so far
\* was answered.
EveryCallAnswered == error # "ApiError"
NoRemoteCall ==
  calls = [trigger |-> 0, listRuns |-> 0, getRun |-> 0, listArtifacts |-> 0,
           download |-> 0]
NothingEmitted == emitted = [conclusion |-> 0, outputs |-> 0]
Unset(v) == v \in {Absent, ""}

\* C1: when no credential resolves (no token in the request and neither
\* environment variable set, absent or empty), the handler fails with the
\* missing-credential error and has made no call of the remote API.
C1_MissingCredentialFailsBeforeAnyCall ==
  (pc # "start" /\ Unset(input.token) /\ Unset(env.GITHUB_TOKEN)
     /\ Unset(env.GH_TOKEN))
    => (pc = "failed" /\ error = "MissingToken" /\ NoRemoteCall
        /\ NothingEmitted)

C1_Witness ==
  /\ input.token = Absent /\ env.GITHUB_TOKEN = Absent /\ env.GH_TOKEN = Absent
  /\ pc = "failed" /\ error = "MissingToken"

\* C2: with waitForCompletion false and a credential, the handler never makes
\* a list-runs, get-run, list-artifacts or download call and never outputs
\* anything; and once the dispatch call was answered it has returned
\* successfully after exactly one dispatch call.
C2_NoWaitOnlyDispatches ==
  (~input.waitForCompletion /\ ~Unset(token) /\ pc # "start")
    => /\ calls.listRuns = 0 /\ calls.getRun = 0
       /\ calls.listArtifacts = 0 /\ calls.download = 0
       /\ NothingEmitted
       /\ output = [conclusion |-> Absent, outputs |-> Undefined]
       /\ calls.trigger <= 1
       /\ (calls.trigger = 1 /\ EveryCallAnswered)
            => (Succeeded /\ calls.trigger = 1)
       /\ (pc = "dispatch") = (calls.trigger = 0)

C2_Witness ==
  /\ ~input.waitForCompletion /\ Succeeded /\ calls.trigger = 1
  /\ calls.listRuns = 0

\* C3: with waitForCompletion true, when every list-runs call is answered
\* and no answer holds a run with the requested head ref, the handler fails
\* with the run-not-found error after exactly 12 list-runs calls; and as long
\* as no answer held such a run no get-run call is made.
C3_RunNotFoundAfterTwelveLists ==
  (input.waitForCompletion /\ firstMatchAt = 0)
    => /\ calls.getRun = 0
       /\ calls.listRuns <= 12
       /\ (Finished /\ EveryCallAnswered /\ calls.listRuns > 0)
            => (pc = "failed" /\ error = "RunNotFound" /\ calls.listRuns = 12)
       /\ error = "RunNotFound" => calls.listRuns = 12

C3_Witness ==
  /\ pc = "failed" /\ error = "RunNotFound" /\ calls.listRuns = 12
  /\ firstMatchAt = 0 /\ calls.getRun = 0

\* C4: when get-run first answers status completed on call k (1 <= k <= 60),
\* exactly k get-run calls are made, no get-run call and no wait follows
\* (k - 1 waits of the polling loop were taken), and the conclusion output
\* is the one that k-th answer carried.
C4_PollingStopsAtCompletion ==
  firstCompleted.call # 0
    => /\ firstCompleted.call \in 1..60
       /\ calls.getRun = firstCompleted.call
       /\ slept.polling = (firstCompleted.call - 1) * 5000
       /\ pc \notin {"getRun", "pollWait"}
       /\ emitted.conclusion = 1
       /\ output.conclusion = firstCompleted.conclusion

C4_Witness ==
  /\ firstCompleted.call = 60 /\ Succeeded
  /\ output.conclusion = "failure" /\ calls.getRun = 60

\* C5: when a run was found, every get-run call is answered and no answer
\* reports status completed, the handler fails with the timeout error after
\* exactly 60 get-run calls; and as long as no answer reported completed,
\* no conclusion is output and no artifact call is made.
C5_TimeoutAfterSixtyPolls ==
  (firstMatchAt # 0 /\ firstCompleted.call = 0)
    => /\ emitted.conclusion = 0 /\ emitted.outputs = 0
       /\ calls.listArtifacts = 0 /\ calls.download = 0
       /\ calls.getRun <= 60
       /\ (Finished /\ EveryCallAnswered)
            => (pc = "failed" /\ error = "Timeout" /\ calls.getRun = 60)
       /\ error = "Timeout" => calls.getRun = 60

C5_Witness ==
  /\ pc = "failed" /\ error = "Timeout" /\ calls.getRun = 60
  /\ firstMatchAt # 0 /\ firstCompleted.call = 0

\* The download was answered and the extraction has run.
Extracted == zipData # NoZip /\ pc # "extract"
\* Entry k is the first entry of the archive whose name ends in .json.
IsFirstJsonEntry(files, k) ==
  /\ k \in 1..Len(files)
  /\ EndsWith(files[k].path, DotJson)
  /\ \A j \in 1..(k - 1) : ~EndsWith(files[j].path, DotJson)

\* C6: after the run was observed completed with an output artifact asked
\* for: when the answered artifact list holds no artifact of exactly that
\* name, or the downloaded archive opens and holds no entry whose name ends
\* in .json, the handler returns successfully with the conclusion output,
\* outputs not output, and one warning logged.
C6_MissingArtifactOrJsonStillSucceeds ==
  /\ (listed.answered /\ listed.first = NoArtifact)
       => /\ Succeeded
          /\ emitted = [conclusion |-> 1, outputs |-> 0]
          /\ output.outputs = Undefined
          /\ warnings = <<"ArtifactNotFound">>
          /\ calls.download = 0
  /\ (Extracted /\ zipData.valid
        /\ \A k \in 1..Len(zipData.files) :
             ~EndsWith(zipData.files[k].path, DotJson))
       => /\ Succeeded
          /\ emitted = [conclusion |-> 1, outputs |-> 0]
          /\ output.outputs = Undefined
          /\ warnings = <<"NoJsonFound">>

C6_Witness ==
  /\ Extracted /\ zipData.valid /\ Len(zipData.files) = 1
  /\ zipData.files[1].path = JsonTxtPath
  /\ Succeeded /\ warnings = <<"NoJsonFound">> /\ emitted.conclusion = 1

C6_WitnessArtifactAbsent ==
  /\ listed.answered /\ listed.first = NoArtifact
  /\ input.outputArtifactName = "result"
  /\ Succeeded /\ warnings = <<"ArtifactNotFound">>

\* Opening the archive, reading the first .json entry or parsing it fails.
ExtractionFails(zip) ==
  \/ ~zip.valid
  \/ \E k \in 1..Len(zip.files) :
       /\ IsFirstJsonEntry(zip.files, k)
       /\ \/ zip.files[k].content = Unreadable
          \/ ~JSONparse(zip.files[k].content).ok

\* C7: when opening the downloaded archive, reading the entry or parsing it
\* as JSON fails, the error is caught and logged as a warning, and the
\* handler returns successfully with the conclusion output and outputs not
\* output.
C7_ExtractionErrorIsCaught ==
  (Extracted /\ ExtractionFails(zipData))
    => /\ Succeeded
       /\ emitted = [conclusion |-> 1, outputs |-> 0]
       /\ output.outputs = Undefined
       /\ warnings = <<"ExtractFailed">>

C7_Witness ==
  /\ Extracted /\ zipData.valid /\ Len(zipData.files) = 2
  /\ zipData.files[1].path = JsonTxtPath
  /\ zipData.files[2].content = "{"
  /\ Succeeded /\ warnings = <<"ExtractFailed">>

C7_WitnessCorrupt == Extracted /\ zipData = CorruptZip /\ Succeeded

\* C8: once the conclusion was output, no failure of a step of the artifact
\* phase (list artifacts, download, open, scan, parse) reaches the caller:
\* the handler never ends in an error after the conclusion was output.
C8_NoFailureAfterConclusion ==
  emitted.conclusion > 0 => pc # "failed"

\* C9: when the artifact was found and its archive holds an entry whose name
\* ends in .json, outputs is output once and equals the JSON value parsed
\* from the first such entry, whatever JSON value that is.
C9_OutputsEqualFirstJsonEntry ==
  \A k \in 1..Len(zipData.files) :
    (Extracted /\ zipData.valid /\ IsFirstJsonEntry(zipData.files, k)
       /\ zipData.files[k].content # Unreadable
       /\ JSONparse(zipData.files[k].content).ok)
      => /\ emitted.outputs = 1
         /\ output.outputs = JSONparse(zipData.files[k].content)

\* The same for the values JavaScript takes as true (objects, arrays,
\* non-zero numbers, non-empty strings, true): these are output.
OutputsEqualFirstTruthyJsonEntry ==
  \A k \in 1..Len(zipData.files) :
    (Extracted /\ zipData.valid /\ IsFirstJsonEntry(zipData.files, k)
       /\ zipData.files[k].content = "{\"x\":1}")
      => /\ Succeeded
         /\ emitted.outputs = 1
         /\ output.outputs = [ok |-> TRUE, kind |-> "object", val |-> "x=1"]

\* The state right after an answered list-runs call: data is its answer and
\* workflowRun the run selected from it.
JustListed ==
  /\ EveryCallAnswered
  /\ pc = "discoverWait" \/ (pc = "getRun" /\ calls.getRun = 0)

\* C10: in each discovery attempt the run selected is, among the returned
\* runs whose head ref equals the requested ref, one with the greatest
\* creation time; a run of another head ref is never selected, and when no
\* returned run matches nothing is selected.
C10_SelectsNewestMatchingRun ==
  JustListed =>
    LET matching ==
          {k \in 1..Len(data) : data[k].head_branch = input.branchOrTagName}
        Millis(r) == (r.created_at[1] * 60 + r.created_at[2]) * 1000
    IN IF matching = {}
       THEN workflowRun = NoRun /\ pc = "discoverWait"
       ELSE /\ \E k \in matching : workflowRun = data[k]
            /\ \A j \in matching : Millis(data[j]) <= Millis(workflowRun)
            /\ workflowRun.head_branch = input.branchOrTagName
            /\ pc = "getRun"

C10_Witness ==
  /\ JustListed /\ Len(data) = 2
  /\ data[1].head_branch = "main" /\ data[2].head_branch = "main"
  /\ data[1].id = 102 /\ data[2].id = 101
  /\ workflowRun = data[2]

C10_WitnessOtherRefNewer ==
  /\ JustListed /\ Len(data) = 2
  /\ data[1].head_branch = "dev" /\ data[1].id = 101
  /\ data[2].head_branch = "main" /\ data[2].id = 102
  /\ workflowRun = data[2]

\* The first of the request token, GITHUB_TOKEN and GH_TOKEN that is set
\* and not empty; Absent when there is none.
FirstNonEmptyCredential ==
  IF ~Unset(input.token) THEN input.token
  ELSE IF ~Unset(env.GITHUB_TOKEN) THEN env.GITHUB_TOKEN
  ELSE IF ~Unset(env.GH_TOKEN) THEN env.GH_TOKEN
  ELSE Absent

\* C11: the credential used is the first non-empty value among the request
\* token, GITHUB_TOKEN and GH_TOKEN, in that order; the handler fails with
\* the missing-credential error only when all three are absent or empty.
C11_FirstNonEmptyCredentialWins ==
  pc # "start" =>
    IF FirstNonEmptyCredential = Absent
    THEN pc = "failed" /\ error = "MissingToken"
    ELSE token = FirstNonEmptyCredential /\ error # "MissingToken"

\* What the code does: the first source that is set decides, even when it is
\* set to the empty string.
FirstSetCredentialDecides ==
  pc # "start" =>
    LET firstSet ==
          IF input.token # Absent THEN input.token
          ELSE IF env.GITHUB_TOKEN # Absent THEN env.GITHUB_TOKEN
          ELSE env.GH_TOKEN
    IN /\ token = firstSet
       /\ (error = "MissingToken") = Unset(firstSet)

\* C13: conclusion is output only when waitForCompletion is true and a get-run
\* response with status completed was observed; outputs is output only when
\* conclusion was output before, an artifact of the requested name was found
\* and an archive entry whose name ends in .json was parsed successfully; each
\* is output at most once; a handler that fails with run-not-found or timeout
\* has output neither.
C13_OutputsOnlyWhenEarned ==
  /\ emitted.conclusion > 0
       => /\ input.waitForCompletion
          /\ completed
          /\ firstCompleted.call > 0
          /\ runData.status = "completed"
          /\ output.conclusion = runData.conclusion
  /\ emitted.outputs > 0
       => /\ emitted.conclusion > 0
          /\ artifact # NoArtifact
          /\ artifact.name = input.outputArtifactName
          /\ zipData # NoZip /\ zipData.valid
          /\ \E k \in 1..Len(zipData.files) :
               /\ EndsWith(zipData.files[k].path, DotJson)
               /\ zipData.files[k].content # Unreadable
               /\ JSONparse(zipData.files[k].content).ok
               /\ output.outputs = JSONparse(zipData.files[k].content)
  /\ emitted.conclusion <= 1
  /\ emitted.outputs <= 1
  /\ error \in {"RunNotFound", "Timeout"} => NothingEmitted
  /\ emitted.conclusion = 0 => output.conclusion = Absent
  /\ emitted.outputs = 0 => output.outputs = Undefined

C13_Witness ==
  /\ pc = "done"
  /\ emitted = [conclusion |-> 1, outputs |-> 1]
  /\ output.conclusion = "failure"

C13_WitnessTimeout ==
  /\ pc = "failed" /\ error = "Timeout" /\ NothingEmitted

\* C14: the artifacts of the run are listed at most once and at most one
\* artifact is downloaded, namely the first one, in the order of the list
\* response, whose name equals the requested name; when no artifact name is
\* requested the handler returns right after the conclusion output, having
\* made no list-artifacts and no download call.
C14_AtMostOneArtifactDownloaded ==
  /\ calls.listArtifacts <= 1
  /\ calls.download <= 1
  /\ Cardinality(downloadedIds) <= 1
  /\ calls.download > 0
       => /\ listed.answered
          /\ listed.first # NoArtifact
          /\ listed.first.name = input.outputArtifactName
          /\ artifact = listed.first
          /\ downloadedIds = {listed.first.id}
  /\ calls.download = 0 => downloadedIds = {}
  /\ NoArtifactRequested
       => /\ calls.listArtifacts = 0 /\ calls.download = 0
          /\ emitted.conclusion > 0 => Succeeded

C14_Witness ==
  /\ calls.download = 1
  /\ downloadedIds = {8}
  /\ listed.first = [id |-> 8, name |-> "result"]

C14_WitnessNoneRequested ==
  /\ NoArtifactRequested /\ emitted.conclusion = 1 /\ pc = "done"

\* C15: the first matching response wins. When the first list-runs response
\* holding a run of the requested ref is the j-th (1 <= j <= 12), exactly j
\* list-runs calls are made, no wait follows the j-th call (the waits of the
\* discovery loop are the j - 1 before it), and every later get-run and
\* list-artifacts call names the run selected from that response.
C15_FirstMatchWins ==
  /\ firstMatchAt \in 0..maxRunPollAttempts
  /\ firstMatchAt # 0
       => /\ calls.listRuns = firstMatchAt
          /\ i = firstMatchAt - 1
          /\ slept.discovery = (firstMatchAt - 1) * runDiscoveryDelayMs
          /\ pc \notin {"listRuns", "discoverWait"}
          /\ workflowRun # NoRun
          /\ workflowRun.head_branch = input.branchOrTagName
          /\ usedRunIds \subseteq {workflowRun.id}
          /\ calls.getRun > 0 => usedRunIds = {workflowRun.id}
  /\ firstMatchAt = 0
       => /\ workflowRun = NoRun
          /\ calls.getRun = 0 /\ calls.listArtifacts = 0 /\ calls.download = 0
          /\ usedRunIds = {}

C15_Witness ==
  /\ firstMatchAt = 3
  /\ calls.listRuns = 3
  /\ slept.discovery = 2 * runDiscoveryDelayMs
  /\ calls.getRun = 2
  /\ calls.listArtifacts = 1
  /\ usedRunIds = {102}

C15_WitnessLastAttempt ==
  /\ firstMatchAt = maxRunPollAttempts
  /\ calls.listRuns = maxRunPollAttempts
  /\ calls.getRun = 1

\* C16: every wait lasts exactly 5 seconds and follows an attempt that did
\* not end its loop: the discovery loop has waited 5 s for each list-runs
\* response without a match, the polling loop 5 s for each get-run response
\* that was not completed; the discovery waits add up to at most 60 s, the
\* polling waits to at most 300 s, and the delay never grows.
C16_FixedFiveSecondWaits ==
  /\ slept.discovery = 5000 * i
  /\ slept.polling = 5000 * attempt
  /\ slept.discovery <= 60000
  /\ slept.polling <= 300000
  /\ i <= calls.listRuns
  /\ attempt <= calls.getRun
  /\ firstMatchAt # 0 => i = firstMatchAt - 1
  /\ firstCompleted.call # 0 => attempt = firstCompleted.call - 1
  /\ calls.listRuns = 0 => slept.discovery = 0
  /\ calls.getRun = 0 => slept.polling = 0

C16_Witness ==
  /\ pc = "failed" /\ error = "Timeout"
  /\ slept = [discovery |-> 55000, polling |-> 300000]

C16_WitnessDiscovery ==
  /\ pc = "failed" /\ error = "RunNotFound"
  /\ slept = [discovery |-> 60000, polling |-> 0]

\* The dispatch, a list-runs or a get-run call was rejected (the artifact
\* calls were never made).
DiscoveryOrPollCallFailed == error = "ApiError" /\ calls.listArtifacts = 0

\* C17: each attempt is one call, never retried. When the dispatch call, a
\* list-runs call or a get-run call is rejected, the handler has failed with
\* that error at once: the rejected call is its last remote call, no wait and
\* no attempt follows it, and neither conclusion nor outputs is output.
C17_RejectedCallFailsAtOnce ==
  /\ [](DiscoveryOrPollCallFailed
          => /\ pc = "failed"
             /\ NothingEmitted
             /\ calls.trigger = 1
             /\ calls.download = 0
             /\ calls.listRuns = 0 => (i = 0 /\ calls.getRun = 0)
             /\ (calls.listRuns > 0 /\ calls.getRun = 0)
                  => (i = calls.listRuns - 1 /\ attempt = 0)
             /\ calls.getRun > 0
                  => (attempt = calls.getRun - 1 /\ calls.listRuns = i + 1))
  /\ [][pc # "failed"]_vars

C17_Witness ==
  /\ pc = "failed" /\ error = "ApiError"
  /\ calls = [trigger |-> 1, listRuns |-> 2, getRun |-> 5, listArtifacts |-> 0,
              download |-> 0]
  /\ attempt = 4

C17_WitnessListRuns ==
  /\ pc = "failed" /\ error = "ApiError"
  /\ calls = [trigger |-> 1, listRuns |-> 7, getRun |-> 0, listArtifacts |-> 0,
              download |-> 0]

\* C18: the phases follow a fixed order. The dispatch call is made exactly
\* once and before any list-runs call; no get-run call is made before a
\* list-runs response held a matching run; no artifact call is made before a
\* get-run response with status completed; the conclusion is output before
\* any artifact call; and no list-runs call is made after the first get-run
\* call.
C18_FixedPhaseOrder ==
  /\ [](/\ calls.trigger <= 1
        /\ calls.listRuns > 0 => calls.trigger = 1
        /\ calls.getRun > 0 => (firstMatchAt # 0 /\ calls.listRuns >= firstMatchAt)
        /\ calls.listArtifacts + calls.download > 0
             => (firstCompleted.call # 0 /\ calls.getRun >= firstCompleted.call
                 /\ emitted.conclusion = 1)
        /\ calls.download > 0 => calls.listArtifacts = 1)
  /\ [][/\ calls.getRun > 0 => calls'.listRuns = calls.listRuns
        /\ calls.listRuns > 0 => calls'.trigger = calls.trigger
        /\ calls.listArtifacts > 0 => calls'.getRun = calls.getRun
        /\ calls'.listArtifacts > calls.listArtifacts => emitted.conclusion = 1
        /\ calls'.download > calls.download => emitted.conclusion = 1]_vars

C18_Witness ==
  /\ pc = "done"
  /\ calls = [trigger |-> 1, listRuns |-> 4, getRun |-> 3, listArtifacts |-> 1,
              download |-> 1]
  /\ emitted.conclusion = 1

\* C19: when every remote call and every wait eventually returns, the handler
\* eventually terminates (returns or throws); and it never makes more than
\* 1 dispatch, 12 list-runs, 60 get-run, 1 list-artifacts and 1 download
\* call.
C19_TerminatesWithinCallBudget ==
  /\ <>Finished
  /\ [](/\ calls.trigger <= 1
        /\ calls.listRuns <= 12
        /\ calls.getRun <= 60
        /\ calls.listArtifacts <= 1
        /\ calls.download <= 1)

C19_Witness ==
  /\ pc = "done"
  /\ calls = [trigger |-> 1, listRuns |-> 12, getRun |-> 60,
              listArtifacts |-> 1, download |-> 1]

\* The invocation whose dispatch created the run with this id.
TriggeredBy(id) ==
  remote[CHOOSE k \in 1..Len(remote) : RemoteRunId(k) = id].by

\* C12: two invocations that dispatch the same workflow on the same ref are
\* not told apart. Every answered list-runs call selects the newest run of
\* the ref that exists in the repository, whichever invocation's dispatch
\* created it, and the invocation then polls that run and outputs that run's
\* conclusion; so an invocation can select, poll and report a run that the
\* other invocation's dispatch created, and both can select the same run.
C12_SelectionIgnoresWhoTriggered ==
  /\ [](workflowRun # NoRun
          => /\ \E k \in 1..Len(remote) : RemoteRunId(k) = workflowRun.id
             /\ usedRunIds \subseteq {workflowRun.id}
             /\ emitted.conclusion = 1
                  => output.conclusion = RemoteRunState(workflowRun.id).conclusion)
  /\ [][(other'.self = other.self /\ calls'.listRuns = calls.listRuns + 1
           /\ error' # "ApiError")
          => IF remote = <<>>
             THEN workflowRun' = NoRun
             ELSE workflowRun'.id = RemoteRunId(Len(remote))]_vars

\* The running invocation has polled and reported a run that the other
\* invocation's dispatch created, while its own run exists as well.
C12_Witness ==
  /\ pc = "done"
  /\ emitted.conclusion = 1
  /\ Len(remote) = 2
  /\ usedRunIds = {workflowRun.id}
  /\ TriggeredBy(workflowRun.id) # other.self
  /\ output.conclusion = RemoteRunState(workflowRun.id).conclusion

\* Both invocations have selected and reported the same run.
C12_WitnessSameRun ==
  /\ pc = "done" /\ other.locals.pc = "done"
  /\ emitted.conclusion = 1 /\ other.locals.emitted.conclusion = 1
  /\ workflowRun.id = other.locals.workflowRun.id
  /\ Len(remote) = 2

====
